---- MODULE Spec2Model ----
(***************************************************************************)
(* A model of pdf-ai-detect: PDFProcessor (pdf_processor.py), the two      *)
(* detectors (ai_detector.py) and the command line driver                  *)
(* (pdf_ai_colorize.py).                                                   *)
(*                                                                         *)
(* Representation.  A text is a sequence of one-character strings.  A      *)
(* rectangle is <<x0, y0, x1, y1>> over integer page coordinates.  Scores, *)
(* colour channels and opacities are Python floats; they are represented   *)
(* in thousandths, so 1.0 is ScoreScale.  BoundingBox objects live in      *)
(* heap (object identity = index): Python lists hold references, so        *)
(* bounding_boxes and boxes are sequences of heap indexes.                 *)
(***************************************************************************)
EXTENDS Integers, Sequences, FiniteSets, TLC

VARIABLES
    entry,          \* which public operation this run exercises
    pc,             \* position of the run
    args,           \* parsed command line arguments / call arguments
    document,       \* the input file: what the extractor yields, page count
    heap,           \* BoundingBox objects, by identity
    bounding_boxes, \* PDFProcessor.bounding_boxes (references)
    boxes,          \* the caller's local list `boxes` (references)
    mergeCalls,     \* history: every call of _merge_boxes, argument and result
    raised,         \* the exception in flight / caught, "" when none
    color,          \* result of a direct score_to_color call
    detector,       \* the detector object main constructed, "" before
    scoreLog,       \* history: one record per iteration of the scoring loop
    handle,         \* colorize_pdf's fitz document: "none", "open", "closed"
    drawn,          \* history: the rectangles drawn on the open document
    drawIdx,        \* colorize_pdf's position in bounding_boxes
    outputSaved,    \* whether the colorized document was written
    legend,         \* create_visualization_legend's document: handle, file written
    exitCode        \* the exit status of the run, -1 while it runs

vars == <<entry, pc, args, document, heap, bounding_boxes, boxes, mergeCalls,
          raised, color, detector, scoreLog, handle, drawn, drawIdx,
          outputSaved, legend, exitCode>>

(***************************************************************************)
(* Bounds of the model.                                                    *)
(***************************************************************************)
MaxBoxes == 3      \* longest document drawn from BoxPool
MaxRun   == 7      \* longest single-page-break document (RunDocs)
MaxN     == 5      \* largest max_boxes_per_segment tried
MaxMainBoxes == 2  \* longest document a run of main is given

ScoreScale == 1000 \* the float 1.0

(***************************************************************************)
(* Texts.                                                                  *)
(***************************************************************************)
Space == " "

T_Hi    == <<"H", "i">>
T_a     == <<" ", "a", " ">>
T_empty == <<>>
T_ten   == <<"a", "b", "c", "d", "e", "f", "g", "h", "i", "j">>
T_nine  == <<" ", "a", "b", "c", "d", "e", "f", "g", "h", "i">>
T_two   == <<"x", " ", "y">>

\* str.strip(): leading and trailing whitespace removed
RECURSIVE LStrip(_)
LStrip(t) == IF t # <<>> /\ Head(t) = Space THEN LStrip(Tail(t)) ELSE t

RECURSIVE RStrip(_)
RStrip(t) ==
    IF t # <<>> /\ t[Len(t)] = Space THEN RStrip(SubSeq(t, 1, Len(t) - 1)) ELSE t

Strip(t) == RStrip(LStrip(t))

\* mutant: "".join(texts), the separator forgotten
RECURSIVE JoinTexts_nosep(_)
JoinTexts_nosep(texts) ==
    IF texts = <<>> THEN <<>> ELSE texts[1] \o JoinTexts_nosep(Tail(texts))

\* " ".join(texts)
RECURSIVE JoinTexts(_)
JoinTexts(texts) ==
    IF texts = <<>> THEN <<>>
    ELSE IF Len(texts) = 1 THEN texts[1]
    ELSE texts[1] \o <<Space>> \o JoinTexts(Tail(texts))

(***************************************************************************)
(* BoundingBox.                                                            *)
(***************************************************************************)
BoundingBox(text, rect, page_no) ==
    [text |-> text, rect |-> rect, page_no |-> page_no, score |-> 0]

BoxPool ==
    { BoundingBox(T_Hi,    <<1, 1, 3, 3>>, 0),
      BoundingBox(T_a,     <<0, 0, 2, 1>>, 0),
      BoundingBox(T_ten,   <<2, 0, 4, 1>>, 0),
      BoundingBox(T_empty, <<0, 2, 5, 2>>, 0),
      BoundingBox(T_nine,  <<1, 2, 1, 2>>, 1),
      BoundingBox(T_two,   <<0, 2, 1, 3>>, 1),
      BoundingBox(T_Hi,    <<3, 0, 4, 4>>, 1),
      BoundingBox(T_ten,   <<0, 0, 2, 1>>, 2),
      \* a box a client has already given a score
      [BoundingBox(T_Hi,   <<1, 0, 2, 3>>, 0) EXCEPT !.score = 700] }

RectCycle == << <<1, 1, 3, 3>>, <<0, 2, 2, 4>>, <<2, 0, 4, 1>> >>
TextCycle == << T_Hi, T_two >>

\* box i of a long document whose first p boxes are on page 0, the rest on page 1
RunBox(i, p) ==
    BoundingBox(TextCycle[(i % Len(TextCycle)) + 1],
                RectCycle[(i % Len(RectCycle)) + 1],
                IF i <= p THEN 0 ELSE 1)

SeqsUpTo(S, n) == UNION {[1..k -> S] : k \in 0..n}

PoolDocs == SeqsUpTo(BoxPool, MaxBoxes)
RunDocs  == {[i \in 1..n |-> RunBox(i, p)] : n \in 1..MaxRun, p \in 0..MaxRun}
Docs     == PoolDocs \cup RunDocs

(***************************************************************************)
(* PDFProcessor._merge_boxes                                               *)
(***************************************************************************)
\* min(...) / max(...) over a generator: a left fold
RECURSIVE MinOf(_)
MinOf(s) ==
    IF Len(s) = 1 THEN s[1]
    ELSE LET m == MinOf(Tail(s)) IN IF m < s[1] THEN m ELSE s[1]

RECURSIVE MaxOf(_)
MaxOf(s) ==
    IF Len(s) = 1 THEN s[1]
    ELSE LET m == MaxOf(Tail(s)) IN IF m > s[1] THEN m ELSE s[1]

Coord(group, k) == [j \in 1..Len(group) |-> group[j].rect[k]]

\* mutant: the corners of the first and the last box, taken for the extremes
MergedRect_ends(group) ==
    << group[1].rect[1], group[1].rect[2],
       group[Len(group)].rect[3], group[Len(group)].rect[4] >>

\* mutant: min and max exchanged, the intersection-like rectangle
MergedRect_swapped(group) ==
    << MaxOf(Coord(group, 1)), MaxOf(Coord(group, 2)),
       MinOf(Coord(group, 3)), MinOf(Coord(group, 4)) >>

MergedRect(group) ==
    << MinOf(Coord(group, 1)), MinOf(Coord(group, 2)),
       MaxOf(Coord(group, 3)), MaxOf(Coord(group, 4)) >>

\* mutant: the combined text stripped
MergedText_stripped(group) ==
    Strip(JoinTexts([j \in 1..Len(group) |-> group[j].text]))

MergedText(group) == JoinTexts([j \in 1..Len(group) |-> group[j].text])

\* mutant: the merged box inherits the score of its first member
_merge_boxes_scored(group) ==
    IF group = <<>>
    THEN [raised |-> "ValueError", box |-> BoundingBox(<<>>, <<0, 0, 0, 0>>, 0)]
    ELSE [raised |-> "",
          box |-> [BoundingBox(MergedText(group), MergedRect(group), group[1].page_no)
                      EXCEPT !.score = group[1].score]]

\* group: the BoundingBox objects passed in, in order
_merge_boxes(group) ==
    IF group = <<>>
    THEN [raised |-> "ValueError", box |-> BoundingBox(<<>>, <<0, 0, 0, 0>>, 0)]
    ELSE [raised |-> "",
          box |-> BoundingBox(MergedText(group), MergedRect(group), group[1].page_no)]

(***************************************************************************)
(* PDFProcessor.merge_boxes_into_segments                                  *)
(***************************************************************************)
Deref(h, ids) == [j \in 1..Len(ids) |-> h[ids[j]]]

\* mutant: the first box of the segment is grown in place and reused
CloseSegment_inplace(st) ==
    LET r == _merge_boxes(Deref(st.heap, st.current_segment_boxes))
        first == st.current_segment_boxes[1]
    IN  IF r.raised # ""
        THEN [st EXCEPT !.raised = r.raised,
                        !.calls = Append(@, [group |-> st.current_segment_boxes,
                                              result |-> 0])]
        ELSE [st EXCEPT !.heap = [@ EXCEPT ![first] = r.box],
                        !.merged_boxes = Append(@, first),
                        !.calls = Append(@, [group |-> st.current_segment_boxes,
                                              result |-> first])]

\* lines 130-131 / 140-141: merge the open segment, append the new object
CloseSegment(st) ==
    LET r == _merge_boxes(Deref(st.heap, st.current_segment_boxes)) IN
    IF r.raised # ""
    THEN [st EXCEPT !.raised = r.raised,
                    !.calls = Append(@, [group |-> st.current_segment_boxes,
                                          result |-> 0])]
    ELSE [st EXCEPT !.heap = Append(@, r.box),
                    !.merged_boxes = Append(@, Len(st.heap) + 1),
                    !.calls = Append(@, [group |-> st.current_segment_boxes,
                                          result |-> Len(st.heap) + 1])]

\* mutant: > for >=, a segment of N + 1 boxes
NewSegmentNeeded_gt(st, box, N) ==
    box.page_no # st.current_page \/ Len(st.current_segment_boxes) > N

NewSegmentNeeded(st, box, N) ==
    box.page_no # st.current_page \/ Len(st.current_segment_boxes) >= N

\* mutant: the open segment merged without the test `if current_segment_boxes`
ScanBox_unguarded(st, id, N) ==
    LET box == st.heap[id] IN
    IF NewSegmentNeeded(st, box, N)
    THEN LET closed == CloseSegment(st)
         IN  IF closed.raised # "" THEN closed
             ELSE [closed EXCEPT !.current_segment_boxes = <<id>>,
                                 !.current_page = box.page_no]
    ELSE [st EXCEPT !.current_segment_boxes = Append(@, id)]

\* one iteration of the for loop, lines 125-136
ScanBox(st, id, N) ==
    LET box == st.heap[id] IN
    IF NewSegmentNeeded(st, box, N)
    THEN LET closed == IF st.current_segment_boxes # <<>>
                       THEN CloseSegment(st) ELSE st
         IN  IF closed.raised # "" THEN closed
             ELSE [closed EXCEPT !.current_segment_boxes = <<id>>,
                                 !.current_page = box.page_no]
    ELSE [st EXCEPT !.current_segment_boxes = Append(@, id)]

\* the for loop from box i on; the state reached so far is evaluated once
RECURSIVE ScanFrom(_, _, _, _)
ScanFrom(st, ids, i, N) ==
    CHOOSE out \in
        { IF i > Len(ids) \/ s.raised # "" THEN s
          ELSE ScanFrom(ScanBox(s, ids[i], N), ids, i + 1, N) : s \in {st} } : TRUE

\* mutant: the last open segment forgotten
CloseLast_forgotten(st) == st

\* lines 138-141
CloseLast(st) ==
    IF st.raised = "" /\ st.current_segment_boxes # <<>> THEN CloseSegment(st) ELSE st

\* lines 121-144, on a non-empty list: the scan and the last segment
ScanAll(h, ids, calls, N) ==
    LET st0 == [merged_boxes |-> <<>>,
                current_page |-> h[ids[1]].page_no,
                current_segment_boxes |-> <<>>,
                heap |-> h, calls |-> calls, raised |-> ""]
    IN  CHOOSE out \in
            { [merged_boxes |-> st.merged_boxes, heap |-> st.heap,
               calls |-> st.calls, raised |-> st.raised] :
              st \in { CloseLast(s) : s \in {ScanFrom(st0, ids, 1, N)} } } : TRUE

\* mutant: no guard for the empty list, self.bounding_boxes[0] raises
merge_boxes_into_segments_noguard(h, ids, calls, N) ==
    IF ids = <<>>
    THEN [merged_boxes |-> <<>>, heap |-> h, calls |-> calls, raised |-> "IndexError"]
    ELSE ScanAll(h, ids, calls, N)

\* the whole method: the returned list, the heap with the new objects, the
\* calls of _merge_boxes it made and the exception it raised, if any
merge_boxes_into_segments(h, ids, calls, N) ==
    IF ids = <<>>
    THEN [merged_boxes |-> <<>>, heap |-> h, calls |-> calls, raised |-> ""]
    ELSE ScanAll(h, ids, calls, N)

(***************************************************************************)
(* PDFProcessor.score_to_color                                             *)
(***************************************************************************)
Half == ScoreScale \div 2

GreenToYellow(score) == << score * 2, ScoreScale, 0 >>
\* mutant: the factor 2 of the second branch forgotten
YellowToRed_unscaled(score) == << ScoreScale, ScoreScale - score, 0 >>

\* mutant: green measured from 0.5 upwards, 2 * (score - 0.5)
YellowToRed_rising(score) == << ScoreScale, 2 * (score - Half), 0 >>

YellowToRed(score)   == << ScoreScale, 2 * (ScoreScale - score), 0 >>

score_to_color(score) ==
    IF score < Half THEN GreenToYellow(score) ELSE YellowToRed(score)

(***************************************************************************)
(* The detectors (ai_detector.py).  The language model is an oracle: an    *)
(* invocation either raises or yields a loss.  exp and the logistic        *)
(* function are tabulated, in thousandths, on the losses the oracle draws. *)
(***************************************************************************)
Losses == {0, 3, 4, 5}
ModelOutcomes ==
    {[raises |-> TRUE, loss |-> 0]} \cup {[raises |-> FALSE, loss |-> l] : l \in Losses}
NoOutcome == [raises |-> FALSE, loss |-> -1]

\* torch.exp(loss), in thousandths
ExpOf(loss) ==
    CASE loss = 0 -> 1000
      [] loss = 3 -> 20086
      [] loss = 4 -> 54598
      [] loss = 5 -> 148413

\* 1 / (1 + exp(-x)), in thousandths
Sigmoid(x) ==
    CASE x = 0 -> 500
      [] x = 3 -> 953
      [] x = 4 -> 982
      [] x = 5 -> 993
      [] x = -3 -> 47
      [] x = -4 -> 18
      [] x = -5 -> 7

DetectorMinLength == 10

\* `not text or len(text.strip()) < 10`
TooShortForDetector(text) == text = <<>> \/ Len(Strip(text)) < DetectorMinLength

\* mutant: the scale upside down, a low perplexity scored as human
PerplexityScore_reversed(perplexity) ==
    IF perplexity < 20 * ScoreScale THEN 200
    ELSE IF perplexity < 50 * ScoreScale THEN 400
    ELSE IF perplexity < 100 * ScoreScale THEN 700
    ELSE 900

\* SimpleAIDetector.score_text, the thresholds of lines 187-194
PerplexityScore(perplexity) ==
    IF perplexity < 20 * ScoreScale THEN 900
    ELSE IF perplexity < 50 * ScoreScale THEN 700
    ELSE IF perplexity < 100 * ScoreScale THEN 400
    ELSE 200

\* mutant: no try/except around the model invocation
SimpleAIDetector_score_text_notry(text, outcome) ==
    IF TooShortForDetector(text)
    THEN [score |-> 500, invoked |-> FALSE, failed |-> FALSE, raised |-> ""]
    ELSE IF outcome.raises
    THEN [score |-> 0, invoked |-> TRUE, failed |-> TRUE, raised |-> "ModelError"]
    ELSE [score |-> PerplexityScore(ExpOf(outcome.loss)), invoked |-> TRUE,
          failed |-> FALSE, raised |-> ""]

\* mutant: 0.0 instead of the neutral 0.5 when the invocation fails
SimpleAIDetector_score_text_zero(text, outcome) ==
    IF TooShortForDetector(text)
    THEN [score |-> 500, invoked |-> FALSE, failed |-> FALSE, raised |-> ""]
    ELSE IF outcome.raises
    THEN [score |-> 0, invoked |-> TRUE, failed |-> TRUE, raised |-> ""]
    ELSE [score |-> PerplexityScore(ExpOf(outcome.loss)), invoked |-> TRUE,
          failed |-> FALSE, raised |-> ""]

SimpleAIDetector_score_text(text, outcome) ==
    IF TooShortForDetector(text)
    THEN [score |-> 500, invoked |-> FALSE, failed |-> FALSE, raised |-> ""]
    ELSE IF outcome.raises
    THEN \* except Exception, lines 198-200
         [score |-> 500, invoked |-> TRUE, failed |-> TRUE, raised |-> ""]
    ELSE [score |-> PerplexityScore(ExpOf(outcome.loss)), invoked |-> TRUE,
          failed |-> FALSE, raised |-> ""]

\* mutant: the log-likelihood itself taken as the score, its sign not inverted
FastDetectGPTDetector_detect_signed(text, outcome) ==
    IF TooShortForDetector(text)
    THEN [result |-> [score |-> 0, probability |-> 500, log_likelihood |-> 0],
          invoked |-> FALSE, failed |-> FALSE, raised |-> ""]
    ELSE IF outcome.raises
    THEN [result |-> [score |-> 0, probability |-> 500, log_likelihood |-> 0],
          invoked |-> TRUE, failed |-> TRUE, raised |-> ""]
    ELSE LET log_likelihood == -outcome.loss
             score == log_likelihood
         IN  [result |-> [score |-> score, probability |-> Sigmoid(score),
                          log_likelihood |-> log_likelihood],
              invoked |-> TRUE, failed |-> FALSE, raised |-> ""]

\* mutant: probability 0.0, not the neutral 0.5, for a text too short
FastDetectGPTDetector_detect_shortzero(text, outcome) ==
    IF TooShortForDetector(text)
    THEN [result |-> [score |-> 0, probability |-> 0, log_likelihood |-> 0],
          invoked |-> FALSE, failed |-> FALSE, raised |-> ""]
    ELSE IF outcome.raises
    THEN [result |-> [score |-> 0, probability |-> 500, log_likelihood |-> 0],
          invoked |-> TRUE, failed |-> TRUE, raised |-> ""]
    ELSE LET log_likelihood == -outcome.loss
             score == -log_likelihood
         IN  [result |-> [score |-> score, probability |-> Sigmoid(score),
                          log_likelihood |-> log_likelihood],
              invoked |-> TRUE, failed |-> FALSE, raised |-> ""]

\* FastDetectGPTDetector.detect: the result dictionary (score and
\* log_likelihood in units of loss, probability in thousandths)
FastDetectGPTDetector_detect(text, outcome) ==
    IF TooShortForDetector(text)
    THEN [result |-> [score |-> 0, probability |-> 500, log_likelihood |-> 0],
          invoked |-> FALSE, failed |-> FALSE, raised |-> ""]
    ELSE IF outcome.raises
    THEN \* except Exception, lines 120-126
         [result |-> [score |-> 0, probability |-> 500, log_likelihood |-> 0],
          invoked |-> TRUE, failed |-> TRUE, raised |-> ""]
    ELSE LET log_likelihood == -outcome.loss
             score == -log_likelihood
         IN  [result |-> [score |-> score, probability |-> Sigmoid(score),
                          log_likelihood |-> log_likelihood],
              invoked |-> TRUE, failed |-> FALSE, raised |-> ""]

\* mutant: the raw score of the result instead of its probability
FastDetectGPTDetector_score_text_raw(text, outcome) ==
    LET d == FastDetectGPTDetector_detect(text, outcome) IN
    [score |-> d.result.score * ScoreScale, invoked |-> d.invoked,
     failed |-> d.failed, raised |-> d.raised]

\* return result["probability"]
FastDetectGPTDetector_score_text(text, outcome) ==
    LET d == FastDetectGPTDetector_detect(text, outcome) IN
    [score |-> d.result.probability, invoked |-> d.invoked,
     failed |-> d.failed, raised |-> d.raised]

score_text(d, text, outcome) ==
    IF d = "SimpleAIDetector" THEN SimpleAIDetector_score_text(text, outcome)
    ELSE FastDetectGPTDetector_score_text(text, outcome)

(***************************************************************************)
(* PDFProcessor.create_visualization_legend                                *)
(***************************************************************************)
\* mutant: 0.7 itself labelled as AI-generated
LegendLabel_inclusive(score) ==
    IF score >= 700 THEN "AI-generated" ELSE IF score < 300 THEN "Human" ELSE "Mixed"

\* line 264: the category printed after the score
LegendLabel(score) ==
    IF score > 700 THEN "AI-generated" ELSE IF score < 300 THEN "Human" ELSE "Mixed"

LegendSwatch(i) ==
    LET score == (i * ScoreScale) \div 10 IN
    [score |-> score, color |-> score_to_color(score), label |-> LegendLabel(score),
     rect |-> <<20, 50 + i * 10, 100, 50 + (i + 1) * 10>>]

LegendSwatches == [k \in 1..11 |-> LegendSwatch(k - 1)]

\* the legend's document: `handle` is the fitz document of line 243 ("none",
\* "open", "closed"), `saved` whether the file was written, `pages` the pages
\* of the file written
NoLegend == [handle |-> "none", saved |-> FALSE, pages |-> <<>>]

LegendPage == [width |-> 400, height |-> 200, swatches |-> LegendSwatches]

\* mutant: one swatch per box of the processor instead of the fixed scale
create_visualization_legend_boxes ==
    {[raised |-> "legend_open", legend |-> NoLegend],
     [raised |-> "legend_draw",
      legend |-> [handle |-> "open", saved |-> FALSE, pages |-> <<>>]],
     [raised |-> "legend_save",
      legend |-> [handle |-> "open", saved |-> FALSE, pages |-> <<>>]],
     [raised |-> "",
      legend |-> [handle |-> "closed", saved |-> TRUE,
                  pages |-> <<[LegendPage EXCEPT !.swatches =
                                  SubSeq(LegendSwatches, 1, Len(bounding_boxes))]>>]]}

\* The outcomes of a call: fitz.open raises; a page or drawing call raises;
\* doc.save raises; or the page is drawn, the file written and the document
\* closed (lines 273-274).  An exception leaves the function before
\* doc.close().
create_visualization_legend ==
    {[raised |-> "legend_open", legend |-> NoLegend],
     [raised |-> "legend_draw",
      legend |-> [handle |-> "open", saved |-> FALSE, pages |-> <<>>]],
     [raised |-> "legend_save",
      legend |-> [handle |-> "open", saved |-> FALSE, pages |-> <<>>]],
     [raised |-> "",
      legend |-> [handle |-> "closed", saved |-> TRUE, pages |-> <<LegendPage>>]]}

(***************************************************************************)
(* Runs.                                                                   *)
(***************************************************************************)
NoArgs ==
    [input_exists |-> TRUE, opacity |-> 0, merge_boxes |-> 0, detector |-> "",
     min_text_length |-> 0, create_legend |-> FALSE, score |-> 0]
NoDoc  == [cells |-> <<>>, pages |-> 0]
NoColor == <<>>

InitRest ==
    /\ boxes = <<>>
    /\ mergeCalls = <<>>
    /\ raised = ""
    /\ color = NoColor
    /\ detector = ""
    /\ scoreLog = <<>>
    /\ handle = "none"
    /\ drawn = <<>>
    /\ drawIdx = 0
    /\ outputSaved = FALSE
    /\ legend = NoLegend
    /\ exitCode = -1

\* the values of max_boxes_per_segment tried, the non-positive ones included
GroupSizes == (-1)..MaxN

\* A client (the tests do this) calls merge_boxes_into_segments on a processor
\* whose bounding_boxes were extracted, and keeps the result in `boxes`.
InitMerge ==
    /\ entry = "merge"
    /\ pc = "call"
    /\ \E d \in Docs, n \in GroupSizes :
          /\ args = [NoArgs EXCEPT !.merge_boxes = n]
          /\ document = [cells |-> d, pages |-> 0]
          /\ heap = d
          /\ bounding_boxes = [i \in 1..Len(d) |-> i]
    /\ InitRest

\* A client calls score_to_color on a score.
InitColor ==
    /\ entry = "color"
    /\ pc = "call"
    /\ \E s \in 0..ScoreScale : args = [NoArgs EXCEPT !.score = s]
    /\ document = NoDoc
    /\ heap = <<>>
    /\ bounding_boxes = <<>>
    /\ InitRest

\* A client (the tests do this) calls create_visualization_legend on a
\* processor on which extract_text_with_boxes was never run.
InitLegend ==
    /\ entry = "legend"
    /\ pc = "call"
    /\ args = NoArgs
    /\ document = NoDoc
    /\ heap = <<>>
    /\ bounding_boxes = <<>>
    /\ InitRest

\* The command line: what argparse accepts (lines 36-90).
Opacities      == {-1, 0, ScoreScale, ScoreScale + 1}
MergeBoxesArgs == {0, 1, 2}
\* mutant: the short name of the usage line as the second choice
DetectorNames_short == {"simple", "fast"}

\* choices=["simple", "fast-detect-gpt"], line 56
DetectorNames  == {"simple", "fast-detect-gpt"}
\* the values of --detector a user may type
DetectorArgs   == {"simple", "fast", "fast-detect-gpt"}
MinTextLengths == {2, 10, 11}

MainPool ==
    { BoundingBox(T_Hi,   <<1, 1, 3, 3>>, 0),
      BoundingBox(T_ten,  <<2, 0, 4, 1>>, 1),
      BoundingBox(T_nine, <<1, 2, 1, 2>>, 2) }

MainDocs == SeqsUpTo(MainPool, MaxMainBoxes)

\* A client calls _merge_boxes on a list of boxes, the empty one included.
InitMergeBoxes ==
    /\ entry = "_merge_boxes"
    /\ pc = "call"
    /\ args = NoArgs
    /\ \E d \in MainDocs :
          /\ document = [cells |-> d, pages |-> 0]
          /\ heap = d
          /\ bounding_boxes = [i \in 1..Len(d) |-> i]
    /\ InitRest

\* main is started on a command line
InitMain ==
    /\ entry = "main"
    /\ pc = "parse_args"
    /\ \E ex \in BOOLEAN, op \in Opacities, mb \in MergeBoxesArgs,
          dn \in DetectorArgs, ml \in MinTextLengths, cl \in BOOLEAN :
          args = [input_exists |-> ex, opacity |-> op, merge_boxes |-> mb,
                  detector |-> dn, min_text_length |-> ml, create_legend |-> cl,
                  score |-> 0]
    /\ IF args.input_exists
       THEN \E d \in MainDocs, np \in 1..2 : document = [cells |-> d, pages |-> np]
       ELSE document = NoDoc
    /\ heap = <<>>
    /\ bounding_boxes = <<>>
    /\ InitRest

Init == InitMerge \/ InitMergeBoxes \/ InitColor \/ InitLegend \/ InitMain

CallMerge ==
    /\ entry = "merge" /\ pc = "call"
    /\ \E r \in {merge_boxes_into_segments(heap, bounding_boxes, mergeCalls,
                                             args.merge_boxes)} :
           /\ heap' = r.heap
           /\ mergeCalls' = r.calls
           /\ raised' = r.raised
           /\ boxes' = IF r.raised = "" THEN r.merged_boxes ELSE boxes
    /\ pc' = "returned"
    /\ UNCHANGED <<entry, args, document, bounding_boxes, color, detector,
                   scoreLog, handle, drawn, drawIdx, outputSaved, legend, exitCode>>

\* _merge_boxes(boxes) called directly: it raises, or returns a new object
CallMergeBoxes ==
    /\ entry = "_merge_boxes" /\ pc = "call"
    /\ \E r \in {_merge_boxes(Deref(heap, bounding_boxes))} :
           /\ raised' = r.raised
           /\ IF r.raised # ""
              THEN /\ mergeCalls' = Append(mergeCalls,
                                           [group |-> bounding_boxes, result |-> 0])
                   /\ UNCHANGED <<heap, boxes>>
              ELSE /\ heap' = Append(heap, r.box)
                   /\ boxes' = <<Len(heap) + 1>>
                   /\ mergeCalls' = Append(mergeCalls,
                                           [group |-> bounding_boxes,
                                            result |-> Len(heap) + 1])
    /\ pc' = "returned"
    /\ UNCHANGED <<entry, args, document, bounding_boxes, color, detector,
                   scoreLog, handle, drawn, drawIdx, outputSaved, legend, exitCode>>

CallColor ==
    /\ entry = "color" /\ pc = "call"
    /\ color' = score_to_color(args.score)
    /\ pc' = "returned"
    /\ UNCHANGED <<entry, args, document, heap, bounding_boxes, boxes,
                   mergeCalls, raised, detector, scoreLog, handle, drawn,
                   drawIdx, outputSaved, legend, exitCode>>

CallLegend ==
    /\ entry = "legend" /\ pc = "call"
    /\ \E r \in create_visualization_legend :
           /\ legend' = r.legend
           /\ raised' = r.raised
    /\ pc' = "returned"
    /\ UNCHANGED <<entry, args, document, heap, bounding_boxes, boxes,
                   mergeCalls, color, detector, scoreLog, handle, drawn,
                   drawIdx, outputSaved, exitCode>>

(***************************************************************************)
(* main (pdf_ai_colorize.py)                                               *)
(***************************************************************************)
\* mutant: the bounds 0.0 and 1.0 themselves rejected
OpacityValid_strict(op) == 0 < op /\ op < ScoreScale

\* mutant: the upper bound not checked
OpacityValid_lower(op) == 0 <= op

OpacityValid(op) == 0 <= op /\ op <= ScoreScale

\* line 90: parser.parse_args() ends the process with status 2 when
\* --detector is not one of the choices
ParseArgs ==
    /\ entry = "main" /\ pc = "parse_args"
    /\ IF args.detector \in DetectorNames
       THEN pc' = "validate" /\ exitCode' = exitCode
       ELSE pc' = "done" /\ exitCode' = 2
    /\ UNCHANGED <<entry, args, document, heap, bounding_boxes, boxes,
                   mergeCalls, raised, color, detector, scoreLog, handle,
                   drawn, drawIdx, outputSaved, legend>>

\* lines 92-100
Validate ==
    /\ entry = "main" /\ pc = "validate"
    /\ IF ~args.input_exists \/ ~OpacityValid(args.opacity)
       THEN pc' = "done" /\ exitCode' = 1
       ELSE pc' = "extract" /\ exitCode' = exitCode
    /\ UNCHANGED <<entry, args, document, heap, bounding_boxes, boxes,
                   mergeCalls, raised, color, detector, scoreLog, handle,
                   drawn, drawIdx, outputSaved, legend>>

\* lines 113-123: PDFProcessor(...), extract_text_with_boxes; the parser
\* either raises or yields the document's cells
Extract ==
    /\ entry = "main" /\ pc = "extract"
    /\ \/ /\ raised' = "extract"
          /\ pc' = "except"
          /\ UNCHANGED <<heap, bounding_boxes, boxes, exitCode>>
       \/ /\ heap' = document.cells
          /\ bounding_boxes' = [i \in 1..Len(document.cells) |-> i]
          /\ boxes' = bounding_boxes'
          /\ IF boxes' = <<>>
             THEN pc' = "done" /\ exitCode' = 1
             ELSE pc' = "merge" /\ exitCode' = exitCode
          /\ UNCHANGED raised
    /\ UNCHANGED <<entry, args, document, mergeCalls, color, detector,
                   scoreLog, handle, drawn, drawIdx, outputSaved, legend>>

\* mutant: merging skipped for the value 1 only
MergeRequested_not1(mb) == mb # 1

\* line 126: if args.merge_boxes > 1
MergeRequested(mb) == mb > 1

\* mutant: processor.bounding_boxes = boxes forgotten after merging
Merge_unassigned ==
    /\ entry = "main" /\ pc = "merge"
    /\ IF MergeRequested(args.merge_boxes)
       THEN \E r \in {merge_boxes_into_segments(heap, bounding_boxes, mergeCalls,
                                                  args.merge_boxes)} :
                /\ heap' = r.heap
                /\ mergeCalls' = r.calls
                /\ raised' = r.raised
                /\ IF r.raised = ""
                   THEN /\ boxes' = r.merged_boxes
                        /\ pc' = "init_detector"
                   ELSE /\ UNCHANGED boxes
                        /\ pc' = "except"
                /\ UNCHANGED bounding_boxes
       ELSE /\ pc' = "init_detector"
            /\ UNCHANGED <<heap, mergeCalls, raised, boxes, bounding_boxes>>
    /\ UNCHANGED <<entry, args, document, color, detector, scoreLog, handle,
                   drawn, drawIdx, outputSaved, legend, exitCode>>

\* lines 125-132
Merge ==
    /\ entry = "main" /\ pc = "merge"
    /\ IF MergeRequested(args.merge_boxes)
       THEN \E r \in {merge_boxes_into_segments(heap, bounding_boxes, mergeCalls,
                                                  args.merge_boxes)} :
                /\ heap' = r.heap
                /\ mergeCalls' = r.calls
                /\ raised' = r.raised
                /\ IF r.raised = ""
                   THEN /\ boxes' = r.merged_boxes
                        /\ bounding_boxes' = r.merged_boxes
                        /\ pc' = "init_detector"
                   ELSE /\ UNCHANGED <<boxes, bounding_boxes>>
                        /\ pc' = "except"
       ELSE /\ pc' = "init_detector"
            /\ UNCHANGED <<heap, mergeCalls, raised, boxes, bounding_boxes>>
    /\ UNCHANGED <<entry, args, document, color, detector, scoreLog, handle,
                   drawn, drawIdx, outputSaved, legend, exitCode>>

\* lines 134-139: loading the model either raises or succeeds
InitDetector ==
    /\ entry = "main" /\ pc = "init_detector"
    /\ \/ /\ raised' = "load_model"
          /\ pc' = "except"
          /\ UNCHANGED detector
       \/ /\ detector' = IF args.detector = "simple" THEN "SimpleAIDetector"
                         ELSE "FastDetectGPTDetector"
          /\ pc' = "score"
          /\ UNCHANGED raised
    /\ UNCHANGED <<entry, args, document, heap, bounding_boxes, boxes,
                   mergeCalls, color, scoreLog, handle, drawn, drawIdx,
                   outputSaved, legend, exitCode>>

\* mutant: the text measured without strip()
LongEnough_untrimmed(text, min_text_length) == Len(text) >= min_text_length

LongEnough(text, min_text_length) == Len(Strip(text)) >= min_text_length

\* lines 143-147: one iteration of the scoring loop
ScoreBox ==
    /\ entry = "main" /\ pc = "score"
    /\ Len(scoreLog) < Len(boxes)
    /\ LET id == boxes[Len(scoreLog) + 1] IN
       IF LongEnough(heap[id].text, args.min_text_length)
       THEN \E outcome \in ModelOutcomes :
               LET r == score_text(detector, heap[id].text, outcome)
                   entry_k == [id |-> id, called |-> TRUE, invoked |-> r.invoked,
                               failed |-> r.failed,
                               outcome |-> IF r.invoked THEN outcome ELSE NoOutcome]
               IN  IF r.raised # ""
                   THEN /\ raised' = r.raised
                        /\ pc' = "except"
                        /\ UNCHANGED <<heap, scoreLog>>
                   ELSE /\ heap' = [heap EXCEPT ![id].score = r.score]
                        /\ scoreLog' = Append(scoreLog, entry_k)
                        /\ UNCHANGED <<raised, pc>>
       ELSE /\ heap' = [heap EXCEPT ![id].score = 0]
            /\ scoreLog' = Append(scoreLog,
                  [id |-> id, called |-> FALSE, invoked |-> FALSE,
                   failed |-> FALSE, outcome |-> NoOutcome])
            /\ UNCHANGED <<raised, pc>>
    /\ UNCHANGED <<entry, args, document, bounding_boxes, boxes, mergeCalls,
                   color, detector, handle, drawn, drawIdx, outputSaved,
                   legend, exitCode>>

\* mutant: the scoring loop left after any number of iterations
ScoreDone_early ==
    /\ entry = "main" /\ pc = "score"
    /\ Len(scoreLog) <= Len(boxes)
    /\ pc' = "colorize_open"
    /\ UNCHANGED <<entry, args, document, heap, bounding_boxes, boxes,
                   mergeCalls, raised, color, detector, scoreLog, handle, drawn,
                   drawIdx, outputSaved, legend, exitCode>>

\* line 143: the scoring loop is exhausted
ScoreDone ==
    /\ entry = "main" /\ pc = "score"
    /\ Len(scoreLog) = Len(boxes)
    /\ pc' = "colorize_open"
    /\ UNCHANGED <<entry, args, document, heap, bounding_boxes, boxes,
                   mergeCalls, raised, color, detector, scoreLog, handle, drawn,
                   drawIdx, outputSaved, legend, exitCode>>

\* colorize_pdf, line 204: fitz.open either raises or yields the handle
ColorizeOpen ==
    /\ entry = "main" /\ pc = "colorize_open"
    /\ \/ /\ raised' = "open"
          /\ pc' = "except"
          /\ UNCHANGED <<handle, drawIdx>>
       \/ /\ handle' = "open"
          /\ drawIdx' = 1
          /\ pc' = "colorize_draw"
          /\ UNCHANGED raised
    /\ UNCHANGED <<entry, args, document, heap, bounding_boxes, boxes,
                   mergeCalls, color, detector, scoreLog, drawn, outputSaved,
                   legend, exitCode>>

\* mutant: > for >=, the page one past the last taken for a page
PageInRange_offbyone(page_no, pages) == ~(page_no > pages)

PageInRange(page_no, pages) == ~(page_no >= pages)

DrawRect(box, id, opacity) ==
    [id |-> id, page |-> box.page_no, rect |-> box.rect,
     color |-> score_to_color(box.score), fill |-> score_to_color(box.score),
     fill_opacity |-> opacity]

\* colorize_pdf, lines 207-227: one iteration of the drawing loop; draw_rect
\* either raises or draws
ColorizeDraw ==
    /\ entry = "main" /\ pc = "colorize_draw"
    /\ drawIdx <= Len(bounding_boxes)
    /\ LET id  == bounding_boxes[drawIdx]
           box == heap[id]
       IN  IF ~PageInRange(box.page_no, document.pages)
           THEN /\ drawIdx' = drawIdx + 1
                /\ UNCHANGED <<drawn, raised, pc>>
           ELSE \/ /\ drawn' = Append(drawn, DrawRect(box, id, args.opacity))
                   /\ drawIdx' = drawIdx + 1
                   /\ UNCHANGED <<raised, pc>>
                \/ /\ raised' = "draw_rect"
                   /\ pc' = "except"
                   /\ UNCHANGED <<drawn, drawIdx>>
    /\ UNCHANGED <<entry, args, document, heap, bounding_boxes, boxes,
                   mergeCalls, color, detector, scoreLog, handle, outputSaved,
                   legend, exitCode>>

\* colorize_pdf, lines 230-231: save either raises or writes; then close
ColorizeSave ==
    /\ entry = "main" /\ pc = "colorize_draw"
    /\ drawIdx > Len(bounding_boxes)
    /\ \/ /\ raised' = "save"
          /\ pc' = "except"
          /\ UNCHANGED <<outputSaved, handle>>
       \/ /\ outputSaved' = TRUE
          /\ handle' = "closed"
          /\ pc' = "legend"
          /\ UNCHANGED raised
    /\ UNCHANGED <<entry, args, document, heap, bounding_boxes, boxes,
                   mergeCalls, color, detector, scoreLog, drawn, drawIdx,
                   legend, exitCode>>

\* lines 153-157 and create_visualization_legend
Legend ==
    /\ entry = "main" /\ pc = "legend"
    /\ IF args.create_legend
       THEN \E r \in create_visualization_legend :
               /\ legend' = r.legend
               /\ raised' = r.raised
               /\ pc' = IF r.raised # "" THEN "except" ELSE "summary"
       ELSE /\ pc' = "summary"
            /\ UNCHANGED <<legend, raised>>
    /\ UNCHANGED <<entry, args, document, heap, bounding_boxes, boxes,
                   mergeCalls, color, detector, scoreLog, handle, drawn,
                   drawIdx, outputSaved, exitCode>>

\* line 163: scores = [box.score for box in boxes if box.score > 0]
scores ==
    LET all == [k \in 1..Len(boxes) |-> heap[boxes[k]].score]
        positive(x) == x > 0
    IN  SelectSeq(all, positive)

\* lines 159-192
Summary ==
    /\ entry = "main" /\ pc = "summary"
    /\ exitCode' = 0
    /\ pc' = "done"
    /\ UNCHANGED <<entry, args, document, heap, bounding_boxes, boxes,
                   mergeCalls, raised, color, detector, scoreLog, handle, drawn,
                   drawIdx, outputSaved, legend>>

\* lines 194-196
HandleException ==
    /\ entry = "main" /\ pc = "except"
    /\ exitCode' = 1
    /\ pc' = "done"
    /\ UNCHANGED <<entry, args, document, heap, bounding_boxes, boxes,
                   mergeCalls, raised, color, detector, scoreLog, handle, drawn,
                   drawIdx, outputSaved, legend>>

Next ==
    \/ CallMerge
    \/ CallMergeBoxes
    \/ CallColor
    \/ CallLegend
    \/ ParseArgs
    \/ Validate
    \/ Extract
    \/ Merge
    \/ InitDetector
    \/ ScoreBox
    \/ ScoreDone
    \/ ColorizeOpen
    \/ ColorizeDraw
    \/ ColorizeSave
    \/ Legend
    \/ Summary
    \/ HandleException

Spec == Init /\ [][Next]_vars

(***************************************************************************)
(* Properties of the segmenter.                                            *)
(***************************************************************************)
\* the boxes the segmenter was given: the extracted ones, objects 1..n
InputIds == [i \in 1..Len(document.cells) |-> i]

\* the segmenter has returned: to the client that called it, or to main
MergeReturned ==
    \/ entry = "merge" /\ pc = "returned"
    \/ /\ entry = "main" /\ MergeRequested(args.merge_boxes)
       /\ pc \notin {"validate", "extract", "merge"} /\ heap # <<>>

N_arg == args.merge_boxes

RECURSIVE Flatten(_)
Flatten(ss) == IF ss = <<>> THEN <<>> ELSE Head(ss) \o Flatten(Tail(ss))

Groups == [k \in 1..Len(mergeCalls) |-> mergeCalls[k].group]

SamePage(g) == \A i, j \in 1..Len(g) : heap[g[i]].page_no = heap[g[j]].page_no

\* C1: for N >= 1 the segmenter partitions its input, in order, into groups:
\* the groups it merged, concatenated, are exactly the input (nothing dropped,
\* duplicated or reordered, each group a contiguous run); every group has
\* between 1 and N members, all on one page; and the k-th output segment is
\* the new object made from the k-th group.
C1_Partition ==
    (MergeReturned /\ N_arg >= 1) =>
        /\ raised # "ValueError"
        /\ Flatten(Groups) = InputIds
        /\ Len(boxes) = Len(mergeCalls)
        /\ \A k \in 1..Len(mergeCalls) :
              /\ Len(Groups[k]) >= 1
              /\ Len(Groups[k]) <= N_arg
              /\ SamePage(Groups[k])
              /\ boxes[k] = mergeCalls[k].result
              /\ boxes[k] > Len(InputIds)
              /\ \A j \in 1..(k - 1) : boxes[j] # boxes[k]

\* a document of at least four boxes on two pages was cut into three or more
\* groups, one of them of full size N >= 2
C1_Witness ==
    /\ MergeReturned /\ N_arg >= 2
    /\ Len(InputIds) >= 4
    /\ Len(boxes) >= 3
    /\ \E i, j \in 1..Len(InputIds) : heap[i].page_no # heap[j].page_no
    /\ \E k \in 1..Len(Groups) : Len(Groups[k]) = N_arg

\* C2: the rectangle of every merged segment is the smallest axis-aligned
\* rectangle containing every member rectangle: it contains each member, and
\* each of its four edges is the edge of some member (x0, y0 minimal; x1, y1
\* maximal).
C2_BoundingRect ==
    MergeReturned =>
        \A k \in 1..Len(mergeCalls) :
            mergeCalls[k].result # 0 =>
                LET out == heap[mergeCalls[k].result].rect
                    g   == Groups[k]
                IN  /\ \A i \in 1..Len(g) :
                          /\ out[1] <= heap[g[i]].rect[1]
                          /\ out[2] <= heap[g[i]].rect[2]
                          /\ out[3] >= heap[g[i]].rect[3]
                          /\ out[4] >= heap[g[i]].rect[4]
                    /\ \A c \in 1..4 : \E i \in 1..Len(g) : out[c] = heap[g[i]].rect[c]

\* a group of three boxes whose merged rectangle is the rectangle of none of them
C2_Witness ==
    /\ MergeReturned
    /\ \E k \in 1..Len(mergeCalls) :
          /\ Len(Groups[k]) >= 3
          /\ \A i \in 1..Len(Groups[k]) :
                heap[Groups[k][i]].rect # heap[mergeCalls[k].result].rect

\* where member j of a group starts in the joined text (0-based offset)
RECURSIVE Offset(_, _, _)
Offset(h, g, j) ==
    IF j = 1 THEN 0 ELSE Offset(h, g, j - 1) + Len(h[g[j - 1]].text) + 1

\* the positions of a joined text that hold an inserted separator
SeparatorPositions(h, g) ==
    {Offset(h, g, j) : j \in 2..Len(g)}

\* a text without the characters at the given positions
RECURSIVE Without(_, _, _)
Without(t, pos, i) ==
    IF i > Len(t) THEN <<>>
    ELSE (IF i \in pos THEN <<>> ELSE <<t[i]>>) \o Without(t, pos, i + 1)

OutputWithoutSeparators ==
    [k \in 1..Len(mergeCalls) |->
        Without(heap[mergeCalls[k].result].text,
                SeparatorPositions(heap, Groups[k]), 1)]

InputTexts == [i \in 1..Len(InputIds) |-> heap[i].text]

\* C3: for N >= 1 the text of every output segment is its members' texts in
\* input order with exactly one space between neighbours (member j occupies
\* its own stretch, one space follows each member but the last, nothing
\* else), and the output texts without those inserted spaces, concatenated
\* in order, are the input texts concatenated in order.
C3_TextJoin ==
    (MergeReturned /\ N_arg >= 1) =>
        /\ \A k \in 1..Len(mergeCalls) :
              LET g   == Groups[k]
                  out == heap[boxes[k]].text
                  n   == Len(g)
              IN  /\ Len(out) = Offset(heap, g, n) + Len(heap[g[n]].text)
                  /\ \A j \in 1..n :
                        SubSeq(out, Offset(heap, g, j) + 1,
                               Offset(heap, g, j) + Len(heap[g[j]].text))
                            = heap[g[j]].text
                  /\ \A j \in 2..n : out[Offset(heap, g, j)] = Space
        /\ Flatten(OutputWithoutSeparators) = Flatten(InputTexts)

\* a group of three texts, one of them with spaces of its own and one empty
C3_Witness ==
    /\ MergeReturned /\ N_arg >= 1
    /\ \E k \in 1..Len(mergeCalls) :
          /\ Len(Groups[k]) = 3
          /\ \E i \in 1..3 : heap[Groups[k][i]].text = T_a
          /\ \E i \in 1..3 : heap[Groups[k][i]].text = T_empty

\* position of the first / last input box of group k
RECURSIVE GroupStart(_)
GroupStart(k) == IF k = 1 THEN 1 ELSE GroupStart(k - 1) + Len(Groups[k - 1])

GroupEnd(k) == GroupStart(k) + Len(Groups[k]) - 1

InputPage(i) == document.cells[i].page_no

\* a..b is a maximal run of consecutive same-page input boxes
MaximalRun(a, b) ==
    /\ a <= b
    /\ \A i \in a..b : InputPage(i) = InputPage(a)
    /\ (a = 1 \/ InputPage(a - 1) # InputPage(a))
    /\ (b = Len(InputIds) \/ InputPage(b + 1) # InputPage(b))

CeilDiv(l, n) == (l + n - 1) \div n

\* C9: the segmenter fills groups greedily: a maximal run of L same-page input
\* boxes is cut, for N >= 1, into exactly ceil(L/N) groups that lie inside the
\* run, each but the last of exactly N boxes, the last of the remainder; 7
\* same-page boxes with N = 5 give exactly the two groups 1-5 and 6-7.
C9_Greedy ==
    (MergeReturned /\ N_arg >= 1) =>
        /\ Flatten(Groups) = InputIds
        /\ \A a, b \in 1..Len(InputIds) :
              MaximalRun(a, b) =>
                 LET L     == b - a + 1
                     inRun == {k \in 1..Len(Groups) :
                                  a <= GroupStart(k) /\ GroupStart(k) <= b}
                     count == CeilDiv(L, N_arg)
                 IN  /\ Cardinality(inRun) = count
                     /\ \A k \in inRun :
                           /\ GroupEnd(k) <= b
                           /\ GroupEnd(k) < b => Len(Groups[k]) = N_arg
                           /\ GroupEnd(k) = b =>
                                 Len(Groups[k]) = L - N_arg * (count - 1)
        /\ (Len(InputIds) = 7 /\ MaximalRun(1, 7) /\ N_arg = 5) =>
              /\ Len(boxes) = 2
              /\ Groups = << <<1, 2, 3, 4, 5>>, <<6, 7>> >>

\* seven boxes on one page were merged with N = 5 into two segments
C9_Witness ==
    /\ MergeReturned /\ N_arg = 5
    /\ Len(InputIds) = 7 /\ MaximalRun(1, 7)
    /\ Len(boxes) = 2

SameContent(id, cell) ==
    /\ heap[id].text = cell.text
    /\ heap[id].rect = cell.rect
    /\ heap[id].page_no = cell.page_no

\* main is past its segmentation stage, with boxes extracted
MainPastMerge ==
    /\ entry = "main" /\ heap # <<>>
    /\ pc \notin {"validate", "extract", "merge"}
    /\ raised # "ValueError"

\* C10: with N = 1 segmentation is a one-to-one passthrough, both when
\* merge_boxes_into_segments(1) is called and when main runs with
\* --merge-boxes 1: as many segments as extracted boxes, the i-th with the
\* text, rectangle and page of the i-th extracted box.
C10_Passthrough ==
    (N_arg = 1 /\ ((entry = "merge" /\ pc = "returned") \/ MainPastMerge)) =>
        /\ Len(boxes) = Len(document.cells)
        /\ \A i \in 1..Len(boxes) : SameContent(boxes[i], document.cells[i])

\* merge_boxes_into_segments(1) returned three new objects for three boxes on
\* two pages, one of them with a text that has spaces at its ends
C10_Witness ==
    /\ entry = "merge" /\ pc = "returned" /\ N_arg = 1
    /\ Len(boxes) = 3 /\ boxes[1] > 3
    /\ InputPage(1) # InputPage(3)
    /\ \E i \in 1..3 : heap[i].text = T_a

(***************************************************************************)
(* Properties of the scoring pass.                                         *)
(***************************************************************************)
TrimmedLength(text) ==
    Len(text) - Cardinality({i \in 1..Len(text) :
                               \/ \A j \in 1..i : text[j] = Space
                               \/ \A j \in i..Len(text) : text[j] = Space})

DefaultMinTextLength == 10

\* parse_args accepted the command line
CommandLineAccepted == args.detector \in DetectorNames

ArgsValid ==
    /\ CommandLineAccepted
    /\ args.input_exists /\ args.opacity >= 0 /\ args.opacity <= ScoreScale

\* C4: in the scoring pass a segment whose trimmed text is shorter than
\* --min-text-length gets score 0, and neither the detector nor the model is
\* invoked for it; a run on a document whose only box is shorter than 10
\* characters, with the default threshold and no failing library call, ends
\* with exit code 0, the output written and that segment's score 0.
C4_ShortUnscored ==
    entry = "main" =>
        /\ \A k \in 1..Len(scoreLog) :
              TrimmedLength(heap[scoreLog[k].id].text) < args.min_text_length =>
                 /\ heap[scoreLog[k].id].score = 0
                 /\ ~scoreLog[k].called
                 /\ ~scoreLog[k].invoked
        /\ ( /\ pc = "done" /\ ArgsValid /\ raised = ""
             /\ args.min_text_length = DefaultMinTextLength
             /\ Len(document.cells) = 1
             /\ TrimmedLength(document.cells[1].text) < DefaultMinTextLength )
           => /\ exitCode = 0
              /\ outputSaved
              /\ Len(boxes) = 1
              /\ heap[boxes[1]].score = 0

\* a run on a one-box document whose text has 10 characters, 9 when trimmed,
\* ended with exit code 0
C4_Witness ==
    /\ entry = "main" /\ pc = "done" /\ exitCode = 0
    /\ args.min_text_length = DefaultMinTextLength
    /\ Len(document.cells) = 1
    /\ document.cells[1].text = T_nine
    /\ Len(scoreLog) = 1 /\ ~scoreLog[1].called
    /\ heap[boxes[1]].score = 0

ScoringOver ==
    /\ entry = "main" /\ detector # ""
    /\ pc \notin {"score", "except"} \/ (pc = "except" /\ handle # "none")

\* C5: when the model invocation fails for a segment, that segment's score is
\* 0.5, no exception leaves score_text (the run stays in the scoring loop, no
\* exception in flight), and the loop goes on to score every remaining
\* segment: once scoring is over every segment has an entry; with either
\* detector.
C5_FailureNeutral ==
    entry = "main" =>
        /\ \A k \in 1..Len(scoreLog) :
              scoreLog[k].failed =>
                 /\ scoreLog[k].invoked
                 /\ heap[scoreLog[k].id].score = ScoreScale \div 2
        /\ pc = "score" => raised = "" /\ exitCode = -1
        /\ raised # "ModelError"
        /\ ScoringOver =>
              /\ Len(scoreLog) = Len(boxes)
              /\ \A k \in 1..Len(boxes) : scoreLog[k].id = boxes[k]

\* the model failed for the first of two segments and the second was scored
\* from a loss, with the fast detector
C5_Witness ==
    /\ entry = "main" /\ pc = "done" /\ exitCode = 0
    /\ detector = "FastDetectGPTDetector"
    /\ Len(scoreLog) = 2
    /\ scoreLog[1].failed
    /\ scoreLog[2].invoked /\ ~scoreLog[2].failed
    /\ heap[boxes[2]].score > ScoreScale \div 2

(***************************************************************************)
(* Properties of the colour mapping and the renderer.                      *)
(***************************************************************************)
\* the mapping the specification states, on thousandths
SpecColor(s) ==
    IF 2 * s < ScoreScale THEN <<2 * s, ScoreScale, 0>>
    ELSE <<ScoreScale, 2 * ScoreScale - 2 * s, 0>>

\* C6: for every score s in [0,1] score_to_color(s) is (2s, 1, 0) when s < 0.5
\* and (1, 2(1-s), 0) when s >= 0.5; so 0 maps to (0,1,0), 1 to (1,0,0), 0.5 to
\* (1,1,0), and the two branches agree at 0.5.
C6_ColorMapping ==
    (entry = "color" /\ pc = "returned") =>
        /\ color = SpecColor(args.score)
        /\ args.score = 0 => color = <<0, ScoreScale, 0>>
        /\ args.score = ScoreScale => color = <<ScoreScale, 0, 0>>
        /\ 2 * args.score = ScoreScale =>
              /\ color = <<ScoreScale, ScoreScale, 0>>
              /\ GreenToYellow(args.score) = color
              /\ YellowToRed(args.score) = color

\* score_to_color(0.5) returned yellow
C6_Witness ==
    /\ entry = "color" /\ pc = "returned"
    /\ 2 * args.score = ScoreScale
    /\ color = <<ScoreScale, ScoreScale, 0>>

\* the rectangles colorize_pdf must have drawn after the first n boxes
RECURSIVE ExpectedDraws(_)
ExpectedDraws(n) ==
    IF n = 0 THEN <<>>
    ELSE LET id == bounding_boxes[n] IN
         IF heap[id].page_no < document.pages
         THEN Append(ExpectedDraws(n - 1),
                     [id |-> id, page |-> heap[id].page_no, rect |-> heap[id].rect,
                      color |-> SpecColor(heap[id].score),
                      fill |-> SpecColor(heap[id].score),
                      fill_opacity |-> args.opacity])
         ELSE ExpectedDraws(n - 1)

\* C7: colorize_pdf draws exactly one filled rectangle per segment whose page
\* is in the document, whatever its score, in list order, on the segment's
\* page, over its rectangle, in the colour of its score and with the caller's
\* opacity; a segment whose page is out of range is skipped without raising
\* (an exception in the loop comes from drawing an in-range segment), the
\* segments before and after it are drawn, and, no library call failing, the
\* output is saved.
C7_Render ==
    (entry = "main" /\ handle # "none") =>
        /\ drawIdx \in 1..(Len(bounding_boxes) + 1)
        /\ drawn = ExpectedDraws(drawIdx - 1)
        /\ raised = "draw_rect" =>
              /\ drawIdx <= Len(bounding_boxes)
              /\ heap[bounding_boxes[drawIdx]].page_no < document.pages
        /\ raised = "" /\ pc # "colorize_draw" =>
              /\ drawIdx = Len(bounding_boxes) + 1
              /\ outputSaved
              /\ handle = "closed"

\* the first of two segments was out of range and skipped, the second, with a
\* score of its own, was drawn, and the output was saved
C7_Witness ==
    /\ entry = "main" /\ pc = "done" /\ exitCode = 0 /\ outputSaved
    /\ Len(bounding_boxes) = 2
    /\ heap[bounding_boxes[1]].page_no >= document.pages
    /\ heap[bounding_boxes[2]].score > 0
    /\ Len(drawn) = 1 /\ drawn[1].id = bounding_boxes[2]

(***************************************************************************)
(* Properties of main.                                                     *)
(***************************************************************************)
AllStagesComplete ==
    /\ heap # <<>>
    /\ MergeRequested(args.merge_boxes) => Len(mergeCalls) > 0
    /\ detector # ""
    /\ Len(scoreLog) = Len(boxes)
    /\ outputSaved
    /\ args.create_legend => legend.saved

\* C8: after parse_args main always ends with exit code 0 or 1: while it runs
\* it can take a step and its loops are bounded; it returns 1 when the input
\* is missing, the opacity is outside [0,1], extraction yields no boxes or an
\* exception was raised (and caught) during processing; it returns 0 exactly
\* when extraction, the requested merging, scoring, rendering and the
\* requested legend all completed.
C8_ExitCodes ==
    (entry = "main" /\ CommandLineAccepted) =>
        /\ pc # "done" => exitCode = -1 /\ ENABLED Next
        /\ Len(scoreLog) <= Len(boxes)
        /\ drawIdx <= Len(bounding_boxes) + 1
        /\ pc = "done" =>
              /\ exitCode \in {0, 1}
              /\ exitCode = 1 <=>
                    \/ ~args.input_exists
                    \/ args.opacity < 0 \/ args.opacity > ScoreScale
                    \/ document.cells = <<>>
                    \/ raised # ""
              /\ exitCode = 0 <=> AllStagesComplete

\* a run with valid arguments drew a rectangle, the next draw_rect raised, and
\* the run ended with exit code 1, nothing saved
C8_Witness ==
    /\ entry = "main" /\ pc = "done" /\ exitCode = 1
    /\ args.input_exists /\ args.opacity = ScoreScale
    /\ raised = "draw_rect" /\ Len(drawn) = 1
    /\ ~outputSaved

(***************************************************************************)
(* The scores the detectors produce.                                       *)
(***************************************************************************)
\* the score main stored for the k-th segment of the scoring pass
ScoreOf(k) == heap[scoreLog[k].id].score

\* the k-th segment was scored from a loss the model returned
ScoredByModel(k) ==
    scoreLog[k].called /\ scoreLog[k].invoked /\ ~scoreLog[k].failed

ModeMapping(d, loss) ==
    IF d = "SimpleAIDetector" THEN PerplexityScore(ExpOf(loss)) ELSE Sigmoid(loss)

\* C12: in the scoring pass, for every text and every --min-text-length
\* (thresholds below 10 included), a segment whose trimmed length reaches the
\* threshold is delegated to the model: the model is invoked for it, and its
\* score is the mode's mapping of the loss, or 0.5 when the invocation fails.
C12_Delegates ==
    entry = "main" =>
        \A k \in 1..Len(scoreLog) :
            TrimmedLength(heap[scoreLog[k].id].text) >= args.min_text_length =>
                /\ scoreLog[k].called
                /\ scoreLog[k].invoked
                /\ scoreLog[k].failed => ScoreOf(k) = Half
                /\ ~scoreLog[k].failed =>
                      ScoreOf(k) = ModeMapping(detector, scoreLog[k].outcome.loss)

\* C13: in simple mode a successful model evaluation with perplexity
\* p = exp(loss) is scored 0.9 if p < 20, 0.7 if 20 <= p < 50, 0.4 if
\* 50 <= p < 100 and 0.2 if p >= 100, and nothing else.
C13_SimpleMapping ==
    (entry = "main" /\ detector = "SimpleAIDetector") =>
        \A k \in 1..Len(scoreLog) :
            ScoredByModel(k) =>
                LET p == ExpOf(scoreLog[k].outcome.loss) IN
                /\ ScoreOf(k) \in {900, 700, 400, 200}
                /\ p < 20 * ScoreScale => ScoreOf(k) = 900
                /\ (20 * ScoreScale <= p /\ p < 50 * ScoreScale) => ScoreOf(k) = 700
                /\ (50 * ScoreScale <= p /\ p < 100 * ScoreScale) => ScoreOf(k) = 400
                /\ p >= 100 * ScoreScale => ScoreOf(k) = 200

\* the simple detector scored two segments, one of perplexity exp(3), about
\* 20.09, as 0.7, the other of perplexity exp(5), about 148.4, as 0.2
C13_Witness ==
    /\ ScoringOver /\ detector = "SimpleAIDetector"
    /\ Len(scoreLog) = 2
    /\ ScoredByModel(1) /\ scoreLog[1].outcome.loss = 3 /\ ScoreOf(1) = 700
    /\ ScoredByModel(2) /\ scoreLog[2].outcome.loss = 5 /\ ScoreOf(2) = 200

C15_ColorMonotone ==
    (entry = "color" /\ pc = "returned") =>
        /\ \A c \in 1..3 : color[c] >= 0 /\ color[c] <= ScoreScale
        /\ color[3] = 0
        /\ \A t \in 0..args.score :
              /\ score_to_color(t)[1] <= color[1]
              /\ score_to_color(t)[2] >= color[2]
              /\ score_to_color(t)[3] = 0

\* score_to_color(0.75) returned: red as high as for any lower score, green
\* strictly below the green of 0.5
C15_Witness ==
    /\ entry = "color" /\ pc = "returned"
    /\ args.score = 750
    /\ color[1] = ScoreScale
    /\ color[2] < score_to_color(Half)[2]

(***************************************************************************)
(* The legend.                                                             *)
(***************************************************************************)
\* the swatches of the legend file with a given label
Labelled(l) ==
    {k \in 1..Len(legend.pages[1].swatches) : legend.pages[1].swatches[k].label = l}

\* C16: the legend written by create_visualization_legend is a single-page
\* document with exactly 11 swatches, for the scores k/10, k = 0..10, in
\* increasing order down the page, each coloured with the mapping of its score
\* and labelled "Human" below 0.3, "Mixed" from 0.3 to 0.7 and "AI-generated"
\* above 0.7: 3 Human, 5 Mixed and 3 AI-generated.
C16_Legend ==
    legend.saved =>
        /\ Len(legend.pages) = 1
        /\ LET sw == legend.pages[1].swatches IN
           /\ Len(sw) = 11
           /\ \A k \in 1..11 :
                 /\ 10 * sw[k].score = (k - 1) * ScoreScale
                 /\ sw[k].color = SpecColor(sw[k].score)
                 /\ 10 * sw[k].score < 3 * ScoreScale => sw[k].label = "Human"
                 /\ 10 * sw[k].score > 7 * ScoreScale => sw[k].label = "AI-generated"
                 /\ (/\ 10 * sw[k].score >= 3 * ScoreScale
                     /\ 10 * sw[k].score <= 7 * ScoreScale) => sw[k].label = "Mixed"
           /\ \A k \in 1..10 :
                 /\ sw[k].score < sw[k + 1].score
                 /\ sw[k].rect[4] = sw[k + 1].rect[2]
                 /\ sw[k].rect[2] < sw[k].rect[4]
        /\ Cardinality(Labelled("Human")) = 3
        /\ Cardinality(Labelled("Mixed")) = 5
        /\ Cardinality(Labelled("AI-generated")) = 3

\* a run of main with --create-legend wrote the legend; its swatches for 0.3
\* and 0.7 are both labelled Mixed
C16_Witness ==
    /\ entry = "main" /\ pc = "done" /\ exitCode = 0
    /\ args.create_legend /\ legend.saved /\ legend.handle = "closed"
    /\ legend.pages[1].swatches[4].label = "Mixed"
    /\ legend.pages[1].swatches[8].label = "Mixed"

(***************************************************************************)
(* The run as a whole.                                                     *)
(***************************************************************************)
\* C17: when the input file does not exist or --opacity is outside [0,1], on
\* a command line parse_args accepts, main exits with code 1 straight from validation: at no moment of the run
\* is anything extracted, a model loaded, a segment scored, a document opened
\* or written, or a legend created.
C17_RejectedEarly ==
    (/\ entry = "main" /\ CommandLineAccepted
     /\ ~args.input_exists \/ args.opacity < 0 \/ args.opacity > ScoreScale) =>
        /\ pc \in {"parse_args", "validate", "done"}
        /\ pc = "done" => exitCode = 1
        /\ heap = <<>> /\ bounding_boxes = <<>> /\ boxes = <<>>
        /\ mergeCalls = <<>>
        /\ detector = ""
        /\ scoreLog = <<>>
        /\ handle = "none" /\ drawn = <<>>
        /\ ~outputSaved
        /\ legend = NoLegend
        /\ raised = ""

\* a run on an existing, non-empty input with --opacity above 1 and
\* --create-legend ended with exit code 1
C17_Witness ==
    /\ entry = "main" /\ pc = "done" /\ exitCode = 1
    /\ args.input_exists /\ args.opacity > ScoreScale
    /\ document.cells # <<>>
    /\ args.create_legend

\* every cell of the input document has its BoundingBox
ExtractionComplete ==
    /\ document.cells # <<>>
    /\ Len(heap) >= Len(document.cells)
    /\ \A i \in 1..Len(document.cells) :
          /\ heap[i].text = document.cells[i].text
          /\ heap[i].rect = document.cells[i].rect

\* `boxes` is the list to score: the merged segments of all the extracted
\* boxes when merging was requested, the extracted boxes otherwise
SegmentationComplete ==
    IF MergeRequested(args.merge_boxes)
    THEN /\ Flatten(Groups) = InputIds
         /\ Len(boxes) = Len(mergeCalls)
         /\ \A k \in 1..Len(boxes) : boxes[k] = mergeCalls[k].result
    ELSE boxes = InputIds /\ mergeCalls = <<>>

\* every segment of `boxes` went through the scoring loop
ScoringComplete ==
    /\ Len(scoreLog) = Len(boxes)
    /\ \A k \in 1..Len(boxes) : scoreLog[k].id = boxes[k]

\* C18: in every run of main the stages are strictly sequential: a step that
\* merges boxes starts from a completed extraction, with nothing scored; a
\* step that scores a segment starts from a completed segmentation, leaves
\* the segments as they are, and nothing is opened or drawn yet; a step that
\* opens the output document, draws a rectangle or saves starts with every
\* segment scored and changes no score.
C18_Stages ==
    [][entry = "main" =>
          /\ mergeCalls' # mergeCalls =>
                /\ ExtractionComplete
                /\ mergeCalls = <<>> /\ scoreLog = <<>>
          /\ scoreLog' # scoreLog =>
                /\ ExtractionComplete /\ SegmentationComplete
                /\ mergeCalls' = mergeCalls /\ boxes' = boxes
                /\ handle = "none" /\ drawn = <<>> /\ ~outputSaved
          /\ (handle' # handle \/ drawn' # drawn \/ outputSaved' # outputSaved) =>
                /\ ExtractionComplete /\ SegmentationComplete /\ ScoringComplete
                /\ scoreLog' = scoreLog /\ heap' = heap /\ boxes' = boxes]_vars

\* a run went through every stage: two boxes merged into two segments, both
\* scored, a rectangle drawn and the output saved
C18_Witness ==
    /\ entry = "main" /\ pc = "done" /\ exitCode = 0
    /\ MergeRequested(args.merge_boxes)
    /\ Len(mergeCalls) = 2 /\ Len(scoreLog) = 2
    /\ drawn # <<>> /\ outputSaved

\* C19: every document handle opened during rendering, by colorize_pdf or by
\* create_visualization_legend, is closed when the run is over, also when a
\* drawing call or the save raised.
C19_HandlesClosed ==
    pc \in {"done", "returned"} =>
        /\ handle # "open"
        /\ legend.handle # "open"

\* C20: create_visualization_legend is independent of the processor's
\* document state: a step that creates the legend changes neither the boxes,
\* the segments nor their scores, the legend it writes is the same fixed page
\* whatever was extracted, merged or scored before, and on a processor on
\* which extraction was never run the call writes that same legend.
C20_LegendFrame ==
    [][/\ legend' # legend =>
             /\ heap' = heap
             /\ bounding_boxes' = bounding_boxes
             /\ boxes' = boxes
             /\ document' = document
             /\ legend'.saved => legend'.pages = <<LegendPage>>
       /\ (entry' = "legend" /\ pc' = "returned" /\ raised' = "") =>
             /\ heap' = <<>> /\ bounding_boxes' = <<>>
             /\ legend'.saved /\ legend'.pages = <<LegendPage>>]_vars

\* the legend was written by a processor that never extracted anything
C20_Witness ==
    /\ entry = "legend" /\ pc = "returned" /\ raised = ""
    /\ bounding_boxes = <<>> /\ heap = <<>>
    /\ legend.saved /\ Len(legend.pages[1].swatches) = 11

(***************************************************************************)
(* More properties of the segmenter.                                       *)
(***************************************************************************)
\* a client's call of merge_boxes_into_segments has returned or raised
MergeCallOver == entry = "merge" /\ pc = "returned"

\* C21: merge_boxes_into_segments on an empty box list returns an empty list
\* for every N, the non-positive ones included, without raising, without
\* calling _merge_boxes and without creating an object.
C21_EmptyInput ==
    (MergeCallOver /\ bounding_boxes = <<>>) =>
        /\ boxes = <<>>
        /\ raised = ""
        /\ mergeCalls = <<>>
        /\ heap = <<>>

\* the call on an empty list with N = 0 has returned
C21_Witness ==
    /\ MergeCallOver /\ bounding_boxes = <<>> /\ document.cells = <<>>
    /\ N_arg = 0
    /\ boxes = <<>> /\ raised = ""

\* C22: every segment produced by _merge_boxes has the page index of the
\* first member of its group, which is the page index of every member, and
\* score 0 whatever scores the members carried: as returned to a client, and
\* in main until the scoring pass starts.
C22_PageAndScore ==
    MergeReturned =>
        \A k \in 1..Len(mergeCalls) :
            LET g == mergeCalls[k].group
                r == mergeCalls[k].result
            IN  r > 0 =>
                  /\ heap[r].page_no = heap[g[1]].page_no
                  /\ \A j \in 1..Len(g) : heap[g[j]].page_no = heap[r].page_no
                  /\ (entry = "merge" \/ scoreLog = <<>>) => heap[r].score = 0

\* a client merged two boxes of page 0, the first one already scored 0.7,
\* into one segment of page 0 with score 0
C22_Witness ==
    /\ MergeCallOver /\ raised = ""
    /\ Len(mergeCalls) >= 1
    /\ Len(mergeCalls[1].group) = 2
    /\ heap[mergeCalls[1].group[1]].score = 700
    /\ heap[mergeCalls[1].result].score = 0
    /\ heap[mergeCalls[1].result].page_no = 0

(***************************************************************************)
(* The command line.                                                       *)
(***************************************************************************)
\* C23, as stated: --detector accepts exactly the names simple and fast;
\* simple selects the perplexity detector, fast the sigmoid log-likelihood
\* detector, and a run with either name gets past parse_args.
C23_AsStated ==
    (entry = "main" /\ pc # "parse_args") =>
        /\ exitCode = 2 <=> args.detector \notin {"simple", "fast"}
        /\ detector # "" =>
              /\ args.detector = "simple" <=> detector = "SimpleAIDetector"
              /\ args.detector = "fast" <=> detector = "FastDetectGPTDetector"

\* C23: --detector accepts exactly the names simple and fast-detect-gpt (the
\* name fast is rejected by parse_args, exit status 2); simple selects the
\* perplexity detector, fast-detect-gpt the sigmoid log-likelihood detector,
\* and a run with either name gets past parse_args.
C23_DetectorNames ==
    (entry = "main" /\ pc # "parse_args") =>
        /\ exitCode = 2 <=> args.detector \notin {"simple", "fast-detect-gpt"}
        /\ args.detector = "fast" =>
              /\ pc = "done"
              /\ heap = <<>> /\ detector = "" /\ ~outputSaved
        /\ detector # "" =>
              /\ args.detector = "simple" <=> detector = "SimpleAIDetector"
              /\ args.detector = "fast-detect-gpt" <=> detector = "FastDetectGPTDetector"

\* a run with --detector fast-detect-gpt scored a segment with the sigmoid
\* detector and ended with exit code 0
C23_Witness ==
    /\ entry = "main" /\ pc = "done" /\ exitCode = 0
    /\ args.detector = "fast-detect-gpt"
    /\ detector = "FastDetectGPTDetector"
    /\ \E k \in 1..Len(scoreLog) : ScoredByModel(k)

\* C24: _merge_boxes applied to an empty list raises instead of returning a
\* segment; and in no execution of merge_boxes_into_segments, called by a
\* client or by main, for any input list and any N, is _merge_boxes called
\* with an empty group or does it raise.
C24_NoEmptyGroup ==
    /\ (entry = "_merge_boxes" /\ pc = "returned") =>
          /\ bounding_boxes = <<>> <=> raised = "ValueError"
          /\ raised = "ValueError" => (boxes = <<>> /\ heap = document.cells)
          /\ raised = "" => Len(boxes) = 1
    /\ entry \in {"merge", "main"} =>
          /\ raised # "ValueError"
          /\ \A k \in 1..Len(mergeCalls) :
                /\ mergeCalls[k].group # <<>>
                /\ mergeCalls[k].result > 0

\* _merge_boxes([]) raised ValueError
C24_Witness ==
    /\ entry = "_merge_boxes" /\ pc = "returned"
    /\ bounding_boxes = <<>>
    /\ raised = "ValueError"
    /\ Len(mergeCalls) = 1 /\ mergeCalls[1].group = <<>>

\* C25: merge_boxes_into_segments does not mutate its input.  After a
\* client's call the processor's stored list is the same list, in the same
\* order, and every original box has the text, rectangle, page and score it
\* had; the merged segments are new objects, distinct from every original
\* and from each other.  In main the originals stay untouched as well, and
\* the stored list is the merged one only by main's own assignment.
C25_InputUntouched ==
    /\ MergeCallOver =>
          /\ bounding_boxes = InputIds
          /\ Len(heap) = Len(InputIds) + Len(boxes)
          /\ \A i \in 1..Len(InputIds) : heap[i] = document.cells[i]
          /\ \A k \in 1..Len(boxes) :
                /\ boxes[k] > Len(InputIds)
                /\ \A j \in 1..(k - 1) : boxes[j] # boxes[k]
    /\ (entry = "main" /\ MergeReturned) =>
          /\ \A i \in 1..Len(InputIds) : heap[i] = document.cells[i]
          /\ \A k \in 1..Len(boxes) : boxes[k] > Len(InputIds)
          /\ raised # "ValueError" => bounding_boxes = boxes

\* a client merged three boxes, one of them scored 0.7, into two segments;
\* the stored list still holds the three originals
C25_Witness ==
    /\ MergeCallOver /\ raised = ""
    /\ Len(bounding_boxes) = 3 /\ Len(boxes) = 2
    /\ \E i \in 1..3 : heap[i].score = 700
    /\ N_arg = 2

\* x0 <= x1 and y0 <= y1
RectOrdered(rect) == rect[1] <= rect[3] /\ rect[2] <= rect[4]

\* C26: segmentation preserves the rectangle invariant: when every input box
\* has x0 <= x1 and y0 <= y1, so has every segment merge_boxes_into_segments
\* outputs, for every N, called by a client or by main.
C26_RectOrdered ==
    (/\ MergeReturned
     /\ \A i \in 1..Len(document.cells) : RectOrdered(document.cells[i].rect)) =>
        /\ \A k \in 1..Len(mergeCalls) :
              mergeCalls[k].result > 0 => RectOrdered(heap[mergeCalls[k].result].rect)
        /\ \A k \in 1..Len(boxes) : RectOrdered(heap[boxes[k]].rect)

\* a client merged two boxes with disjoint x-ranges, [0,2] and [3,4], into
\* one segment spanning [0,4]
C26_Witness ==
    /\ MergeCallOver /\ raised = ""
    /\ \E k \in 1..Len(mergeCalls) :
          LET g == mergeCalls[k].group IN
          /\ Len(g) = 2
          /\ heap[g[1]].rect[3] < heap[g[2]].rect[1]
          /\ heap[mergeCalls[k].result].rect[1] = heap[g[1]].rect[1]
          /\ heap[mergeCalls[k].result].rect[3] = heap[g[2]].rect[3]

(***************************************************************************)
(* Scoring and rendering together.                                         *)
(***************************************************************************)
\* the score the scoring pass assigned in its k-th iteration, from its log
AssignedScore(k) ==
    IF ~scoreLog[k].called THEN 0
    ELSE IF ~scoreLog[k].invoked \/ scoreLog[k].failed THEN Half
    ELSE ModeMapping(detector, scoreLog[k].outcome.loss)

\* C27: in main, whether merging was performed or skipped, the list the
\* scoring loop writes into is the list colorize_pdf renders: once rendering
\* has started the two lists are the same, every rectangle drawn belongs to
\* a segment the scoring pass went through, and its colour is the mapping of
\* the score that pass assigned to that very segment.
C27_ScoredIsRendered ==
    (entry = "main" /\ handle # "none") =>
        /\ bounding_boxes = boxes
        /\ ScoringComplete
        /\ \A n \in 1..Len(drawn) :
              \E k \in 1..Len(scoreLog) :
                  /\ scoreLog[k].id = drawn[n].id
                  /\ bounding_boxes[k] = drawn[n].id
                  /\ heap[drawn[n].id].score = AssignedScore(k)
                  /\ drawn[n].color = SpecColor(AssignedScore(k))
                  /\ drawn[n].fill = SpecColor(AssignedScore(k))

\* a run with --merge-boxes 2 drew the rectangle of a merged segment in the
\* colour of the score the model gave it
C27_Witness ==
    /\ entry = "main" /\ MergeRequested(args.merge_boxes)
    /\ Len(drawn) >= 1
    /\ drawn[1].id > Len(document.cells)
    /\ \E k \in 1..Len(scoreLog) :
          /\ scoreLog[k].id = drawn[1].id /\ ScoredByModel(k)
          /\ drawn[1].color = SpecColor(AssignedScore(k))

\* the segments that meet --min-text-length
MeetingThreshold ==
    {k \in 1..Len(boxes) : TrimmedLength(heap[boxes[k]].text) >= args.min_text_length}

LossesNonNegative ==
    \A k \in 1..Len(scoreLog) : ScoredByModel(k) => scoreLog[k].outcome.loss >= 0

\* C29: with a non-negative model loss, every score the fast detector's
\* score_text returns (successful evaluation, failure, short text) lies in
\* [0.5, 1]; so in a fast-mode run every rectangle of a segment meeting
\* --min-text-length is drawn with red channel 1, and a rectangle with less
\* red is pure green and belongs to a segment the detector was not called for
\* (score 0).
C29_FastAtLeastHalf ==
    (entry = "main" /\ detector = "FastDetectGPTDetector" /\ LossesNonNegative) =>
        /\ \A k \in 1..Len(scoreLog) :
              scoreLog[k].called => (ScoreOf(k) >= Half /\ ScoreOf(k) <= ScoreScale)
        /\ \A n \in 1..Len(drawn) :
              LET id == drawn[n].id IN
              /\ TrimmedLength(heap[id].text) >= args.min_text_length =>
                    drawn[n].color[1] = ScoreScale
              /\ drawn[n].color[1] < ScoreScale =>
                    /\ drawn[n].color = <<0, ScoreScale, 0>>
                    /\ heap[id].score = 0
                    /\ \E k \in 1..Len(scoreLog) :
                          scoreLog[k].id = id /\ ~scoreLog[k].called

\* a fast-mode run drew two rectangles: a green one for a segment below the
\* threshold and one with red 1 for a segment the model scored
C29_Witness ==
    /\ entry = "main" /\ detector = "FastDetectGPTDetector"
    /\ Len(drawn) = 2
    /\ \E m, n \in 1..2 :
          /\ drawn[m].color = <<0, ScoreScale, 0>>
          /\ drawn[n].color[1] = ScoreScale
          /\ \E k \in 1..Len(scoreLog) : scoreLog[k].id = drawn[n].id /\ ScoredByModel(k)

\* what merge_boxes_into_segments(1) returns on the extracted boxes
ResultForOne ==
    LET r == merge_boxes_into_segments(document.cells, InputIds, <<>>, 1)
    IN  Deref(r.heap, r.merged_boxes)

\* C30: merge_boxes_into_segments called with N <= 0 returns without an
\* error exactly what it returns for N = 1: one segment per input box, in
\* order, each made from that box alone.  And main skips the segmentation
\* stage for every --merge-boxes <= 1: _merge_boxes is never called, no object
\* is created, and the extracted boxes themselves are the segments that are
\* scored and rendered.
C30_NonPositiveN ==
    /\ (MergeCallOver /\ N_arg <= 0) =>
          /\ raised = ""
          /\ Len(boxes) = Len(InputIds)
          /\ Deref(heap, boxes) = ResultForOne
          /\ \A k \in 1..Len(boxes) : mergeCalls[k].group = <<k>>
    /\ (entry = "main" /\ args.merge_boxes <= 1) =>
          /\ mergeCalls = <<>>
          /\ Len(heap) <= Len(document.cells)
          /\ heap # <<>> => (boxes = InputIds /\ bounding_boxes = InputIds)
          /\ \A k \in 1..Len(scoreLog) : scoreLog[k].id = k
          /\ \A n \in 1..Len(drawn) : drawn[n].id \in 1..Len(document.cells)

\* merge_boxes_into_segments(-1) on three boxes, two of them on one page,
\* returned three segments
C30_Witness ==
    /\ MergeCallOver /\ N_arg = -1 /\ raised = ""
    /\ Len(InputIds) = 3 /\ Len(boxes) = 3
    /\ heap[1].page_no = heap[2].page_no
    /\ Deref(heap, boxes) = ResultForOne

====
